---- MODULE Spec2Model ----
(***************************************************************************)
(* Model of the WhatsApp statement bot (src/index.js): the per-message     *)
(* handler client.on('message'), processWhatsAppRequest,                   *)
(* findPartyByPhoneNumber, checkForStatement and generateAndSendStatement. *)
(* Every await of the source is one step of the run that executes it; a    *)
(* collaborator call (store, render service, file system, chat transport)  *)
(* either answers or rejects.  Strings are sequences of one-character      *)
(* strings; messages built from fixed text and values are sequences of     *)
(* tokens.                                                                 *)
(***************************************************************************)
EXTENDS Integers, Sequences, FiniteSets, TLC

\* ------------------------------------------------------------------ bounds
MaxMsgs == 2        \* inbound messages delivered in one behaviour
MaxFaults == 3      \* collaborator calls that reject in one behaviour
MaxNow == 1         \* largest value Date.now() takes
MaxDigits == 12     \* longest sender number the matcher is applied to

Msgs == 1..MaxMsgs

\* ------------------------------------------------------------ fixed inputs
Undefined == "undefined"

Digits == {"0", "1", "2", "3", "4", "5", "6", "7", "8", "9"}

\* message.from values seen by the handler
FromTen == <<"9","8","7","6","5","4","3","2","1","0","@","c",".","u","s">>
FromTwelve == <<"9","1","9","8","7","6","5","4","3","2","1","0","@","c",".","u","s">>

Inbox ==
    { [from |-> FromTen, body |-> <<" ", "h", "i", " ">>, isGroup |-> FALSE],
      [from |-> FromTwelve, body |-> <<"h", "i">>, isGroup |-> FALSE],
      [from |-> FromTen, body |-> <<"h", "i">>, isGroup |-> TRUE] }

\* findOne's answer when no document matches
Null == [code |-> "null", customerName |-> << >>, city |-> << >>]

\* the PartyCode collection, in the store's natural order
PartyCodeDocs ==
    << [code |-> "C200",
        customerName |-> <<"R","a","v","i"," ","(","9","1","2","3","4"," ","5","6","7","8","9",")">>,
        city |-> <<"P","u","n","e">>],
       [code |-> "C100",
        customerName |-> <<"A","s","h","a">>,
        city |-> <<"n","e","a","r"," ","9","8","7","6","5"," ","4","3","2","1","0"," ","m","k","t">>] >>

\* the statements the Statement collection may hold: _id and statementDate
StatementDocs ==
    { [id |-> 1, statementDate |-> 1], [id |-> 2, statementDate |-> 2] }

\* the ReportSection documents the store may hold
ReportSectionDocs ==
    { [statementId |-> d.id, partyCode |-> "C100"] : d \in StatementDocs }

\* --------------------------------------------------------- string helpers
RECURSIVE StripNonDigits(_)
\* sender.replace(/\D/g, '')
StripNonDigits(s) ==
    IF s = << >> THEN << >>
    ELSE IF Head(s) \in Digits THEN <<Head(s)>> \o StripNonDigits(Tail(s))
    ELSE StripNonDigits(Tail(s))

Whitespace == {" "}

RECURSIVE TrimStart(_)
TrimStart(s) ==
    IF s # << >> /\ Head(s) \in Whitespace THEN TrimStart(Tail(s)) ELSE s

RECURSIVE TrimEnd(_)
TrimEnd(s) ==
    IF s # << >> /\ s[Len(s)] \in Whitespace
    THEN TrimEnd(SubSeq(s, 1, Len(s) - 1)) ELSE s

\* message.body.trim()
Trim(s) == TrimEnd(TrimStart(s))

AllDigits(s) == \A i \in 1..Len(s) : s[i] \in Digits

\* positions where /(\d{5})(\d{5})/ can match: ten consecutive digits
TenDigitStarts(s) ==
    { i \in 1..Len(s) : i + 9 <= Len(s) /\ AllDigits(SubSeq(s, i, i + 9)) }

Min(S) == CHOOSE x \in S : \A y \in S : x <= y

\* s.replace(/(\d{5})(\d{5})/, '$1' + sep + '$2'): the first match only
SplitFiveFive(s, sep) ==
    IF TenDigitStarts(s) = {} THEN s
    ELSE LET i == Min(TenDigitStarts(s))
         IN SubSeq(s, 1, i + 4) \o sep \o SubSeq(s, i + 5, Len(s))

\* the hyphen variant written with a space, as the variant before it
searchPatterns_NoHyphen(phoneNumber) ==
    << phoneNumber,
       SplitFiveFive(phoneNumber, <<" ">>),
       SplitFiveFive(phoneNumber, <<" ">>),
       <<"(">> \o phoneNumber \o <<")">>,
       <<"(">> \o SplitFiveFive(phoneNumber, <<" ">>) \o <<")">> >>

searchPatterns(phoneNumber) ==
    << phoneNumber,
       SplitFiveFive(phoneNumber, <<" ">>),
       SplitFiveFive(phoneNumber, <<"-">>),
       <<"(">> \o phoneNumber \o <<")">>,
       <<"(">> \o SplitFiveFive(phoneNumber, <<" ">>) \o <<")">> >>

RegexMeta == {".", "*", "+", "?", "^", "$", "{", "}", "(", ")", "|", "[", "]", "\\"}

RECURSIVE EscapeRegex(_)
\* pattern.replace(/[.*+?^${}()|[\]\\]/g, '\\$&')
EscapeRegex(p) ==
    IF p = << >> THEN << >>
    ELSE IF Head(p) \in RegexMeta THEN <<"\\", Head(p)>> \o EscapeRegex(Tail(p))
    ELSE <<Head(p)>> \o EscapeRegex(Tail(p))

RECURSIVE RegexAtoms(_)
\* new RegExp(source): the atoms of a source without unescaped
\* metacharacters; "\\" followed by c is the literal c, "(" opens a group,
\* ")" closes it and both match the empty string
RegexAtoms(src) ==
    IF src = << >> THEN << >>
    ELSE IF Head(src) = "\\" /\ Len(src) >= 2
         THEN <<src[2]>> \o RegexAtoms(Tail(Tail(src)))
    ELSE IF Head(src) \in {"(", ")"} THEN RegexAtoms(Tail(src))
    ELSE <<Head(src)>> \o RegexAtoms(Tail(src))

\* a regular expression anchored at the start of the field
RegexTest_Anchored(src, field) ==
    LET lit == RegexAtoms(src)
    IN Len(lit) <= Len(field) /\ SubSeq(field, 1, Len(lit)) = lit

\* an unanchored regular expression of literal atoms tested on a field
RegexTest(src, field) ==
    LET lit == RegexAtoms(src)
    IN \E i \in 1..(Len(field) + 1) :
          /\ i + Len(lit) - 1 <= Len(field)
          /\ SubSeq(field, i, i + Len(lit) - 1) = lit

phoneRegexPatterns(phoneNumber) ==
    [k \in 1..5 |-> EscapeRegex(searchPatterns(phoneNumber)[k])]

\* { field: { $in: [regex, ...] } }
FieldIn(field, regexes) == \E k \in 1..Len(regexes) : RegexTest(regexes[k], field)

\* partyCodes.findOne({ $or: [customerName in patterns, city in patterns] })
findPartyByPhoneNumber(phoneNumber) ==
    LET pats == phoneRegexPatterns(phoneNumber)
        hits == { i \in 1..Len(PartyCodeDocs) :
                    \/ FieldIn(PartyCodeDocs[i].customerName, pats)
                    \/ FieldIn(PartyCodeDocs[i].city, pats) }
    IN IF hits = {} THEN Null ELSE PartyCodeDocs[Min(hits)]

\* ------------------------------------------------------------ fixed texts
NotLinkedMessage == <<"Your number isn't linked with any party.">>

NotLinkedReply ==
    <<"Sorry, your number isn't linked with any party. Please contact Sanjivan Medico Traders to add this number to their database.">>

NoStatementMessage(code) == <<"No statement found for party code ", code>>

NoStatementReply_NoCode(code) ==
    <<"No statement found. Please contact Sanjivan Medico Traders for more information.">>

NoStatementReply(code) ==
    <<"No statement found for \"", code,
      "\". Please contact Sanjivan Medico Traders for more information.">>

\* party.customerName || party.code
NameOrCode(party) ==
    IF party.customerName = << >> THEN <<party.code>> ELSE party.customerName

IntroReply(party) ==
    <<"Here is your latest statement for ">> \o NameOrCode(party) \o <<":">>

Caption(party) == <<"Statement ", party.code>>

SuccessMessage == <<"Statement PDF sent successfully">>

Apology ==
    <<"Sorry, there was an error processing your request. Please try again later.">>

\* error.message of the faults the collaborators raise
StoreError == <<"MongoNetworkError">>
HandleError == <<"Cannot read properties of undefined (reading 'insertOne')">>
ReplyError == <<"Evaluation failed">>
WriteError == <<"ENOSPC: no space left on device, write">>
UnlinkError == <<"EPERM: operation not permitted, unlink">>
NoStatementsError == <<"No statements found in the database">>
NoSectionError == <<"Report section not found">>
RenderRejections ==
    { <<"Request failed with status code 500">> }
\* the wait axios allows the render service, in milliseconds
timeout == 60000
\* the message of the rejection axios raises when the wait ran out
TimeoutError == <<"timeout of ", ToString(timeout), "ms exceeded">>
\* response.statusText of a 2xx answer other than 200
StatusTextNon200 == <<"No Content">>

\* ------------------------------------------------------------------ state
VARIABLES
    db,                \* "pending" | "bound" | "unbound": the store handles
    whatsappRequests,  \* the WhatsAppRequest collection; _id is the index
    statements,        \* the Statement collection
    reportSections,    \* the ReportSection collection
    files,             \* scratch files present in the working directory
    now,               \* Date.now()
    faults,            \* collaborator calls that have rejected so far
    run,               \* per message: position and locals of its handler
    trace              \* per message: the collaborator calls it made

vars == <<db, whatsappRequests, statements, reportSections, files, now,
          faults, run, trace>>

Terminal == {"NO_MATCH", "NO_STATEMENT", "FAILED", "PROCESSED"}

IdleRun ==
    [pc |-> "idle", message |-> CHOOSE x \in Inbox : TRUE, phoneNumber |-> << >>,
     requestId |-> 0, matchedParty |-> Null, hasStatement |-> {},
     statementId |-> 0,
     tempFilePath |-> << >>, error |-> << >>]

Init ==
    /\ db = "pending"
    /\ whatsappRequests = << >>
    /\ statements \in SUBSET StatementDocs
    /\ reportSections \in SUBSET { s \in ReportSectionDocs :
                                     \E d \in statements : d.id = s.statementId }
    /\ files = {}
    /\ now = 0
    /\ faults = 0
    /\ run = [m \in Msgs |-> IdleRun]
    /\ trace = [m \in Msgs |-> << >>]

\* ----------------------------------------------------------------- helpers
CanFault == faults < MaxFaults

\* one collaborator call: the operation, whether it answered, its argument
\* and, when it rejected, the message of the error it raised
Call(op, ok, arg, err) == [op |-> op, ok |-> ok, arg |-> arg, err |-> err]

Log(m, op, ok, arg) ==
    trace' = [trace EXCEPT ![m] = Append(@, Call(op, ok, arg, << >>))]

LogRejected(m, op, arg, err) ==
    trace' = [trace EXCEPT ![m] = Append(@, Call(op, FALSE, arg, err))]

Goto(m, pc) == run' = [run EXCEPT ![m].pc = pc]

\* an exception raised at a step: control moves to the catch block at pc
\* with the error's message
Throw(m, pc, err) == run' = [run EXCEPT ![m].pc = pc, ![m].error = err]

\* a collaborator call that rejects with err; the catch block at pc
\* receives the error thrown
Reject(m, op, arg, pc, err, thrown) ==
    /\ CanFault
    /\ faults' = faults + 1
    /\ Throw(m, pc, thrown)
    /\ LogRejected(m, op, arg, err)

\* generateAndSendStatement's inner catch: rethrown wrapped
ApiError(err) == <<"Failed to generate PDF: ">> \o err

\* statements.find().sort({ statementDate: -1 }).limit(1).toArray()
latestStatement ==
    { d \in statements : \A e \in statements : e.statementDate <= d.statementDate }

\* a section lookup by customer key alone, whatever the statement
findReportSection_AnyStatement(statementId, partyCode) ==
    { s \in reportSections : s.partyCode = partyCode }

\* db.collection('ReportSection').findOne({ statementId, partyCode })
findReportSection(statementId, partyCode) ==
    { s \in reportSections : s.statementId = statementId /\ s.partyCode = partyCode }

\* checkForStatement(partyCode) on the stores as they are: the answers it
\* can give (one for each statement the sorted query can put first)
checkForStatement(partyCode) ==
    IF latestStatement = {} THEN {FALSE}
    ELSE { findReportSection(d.id, partyCode) # {} : d \in latestStatement }

\* the record inserted by the message handler
requestRecord(phoneNumber, messageText) ==
    [phoneNumber |-> phoneNumber, message |-> messageText, status |-> "RECEIVED",
     matchedPartyCode |-> Undefined, matchedPartyName |-> << >>,
     responseMessage |-> << >>, statementSent |-> FALSE]

\* the $set documents of the five updateOne calls
SetNoMatch(doc) ==
    [doc EXCEPT !.status = "NO_MATCH", !.responseMessage = NotLinkedMessage]

SetMatched(doc, party) ==
    [doc EXCEPT !.matchedPartyCode = party.code, !.matchedPartyName = party.customerName]

SetNoStatement(doc, party) ==
    [doc EXCEPT !.status = "NO_STATEMENT",
                !.responseMessage = NoStatementMessage(party.code)]

SetProcessed_NoFlag(doc) ==
    [doc EXCEPT !.status = "PROCESSED", !.responseMessage = SuccessMessage]

SetProcessed(doc) ==
    [doc EXCEPT !.status = "PROCESSED", !.statementSent = TRUE,
                !.responseMessage = SuccessMessage]

\* a FAILED completion that replaces the record instead of setting fields
SetFailed_Replace(doc, err) ==
    [requestRecord(doc.phoneNumber, doc.message) EXCEPT
        !.status = "FAILED", !.responseMessage = <<"Error: ">> \o err]

SetFailed(doc, err) ==
    [doc EXCEPT !.status = "FAILED", !.responseMessage = <<"Error: ">> \o err]

\* an update filtered by the sender's number instead of the record's _id
updateOne_ByPhone(requestId, doc) ==
    whatsappRequests' =
       [id \in DOMAIN whatsappRequests |->
          IF whatsappRequests[id].phoneNumber = doc.phoneNumber
          THEN doc ELSE whatsappRequests[id]]

\* whatsappRequests.updateOne({ _id: requestId }, { $set: ... })
updateOne(requestId, doc) ==
    whatsappRequests' = [whatsappRequests EXCEPT ![requestId] = doc]

\* ------------------------------------------------------- message handler
\* a handler without the group check
isGroup_Never(message) == FALSE

\* if (message.isGroup) return;
isGroup(message) == message.isGroup

\* client.on('message'): the group check, the RECEIVED record and its insert
OnMessage(m) ==
    /\ run[m].pc = "idle"
    /\ \E message \in Inbox :
         LET phoneNumber == StripNonDigits(message.from)
             messageText == Trim(message.body)
             started == [run[m] EXCEPT !.message = message]
         IN \/ /\ isGroup(message)
               /\ run' = [run EXCEPT ![m] = [started EXCEPT !.pc = "done"]]
               /\ UNCHANGED <<whatsappRequests, faults, trace>>
            \/ /\ ~isGroup(message)
               /\ db # "bound"
               /\ run' = [run EXCEPT ![m] =
                            [started EXCEPT !.pc = "handlerCatch",
                                            !.phoneNumber = phoneNumber,
                                            !.error = HandleError]]
               /\ UNCHANGED <<whatsappRequests, faults, trace>>
            \/ /\ ~isGroup(message)
               /\ db = "bound"
               /\ whatsappRequests' =
                    Append(whatsappRequests, requestRecord(phoneNumber, messageText))
               /\ run' = [run EXCEPT ![m] =
                            [started EXCEPT !.pc = "findParty",
                                            !.phoneNumber = phoneNumber,
                                            !.requestId = Len(whatsappRequests) + 1]]
               /\ Log(m, "insertOne", TRUE, << >>)
               /\ UNCHANGED faults
            \/ /\ ~isGroup(message)
               /\ db = "bound"
               /\ CanFault
               /\ faults' = faults + 1
               /\ run' = [run EXCEPT ![m] =
                            [started EXCEPT !.pc = "handlerCatch",
                                            !.phoneNumber = phoneNumber,
                                            !.error = StoreError]]
               /\ LogRejected(m, "insertOne", << >>, StoreError)
               /\ UNCHANGED whatsappRequests
    /\ UNCHANGED <<db, statements, reportSections, files, now>>

\* without the inner try, a rejected apology leaves the handler as an
\* unhandled rejection
HandlerCatch_Rethrow(m) ==
    /\ run[m].pc = "handlerCatch"
    /\ \/ /\ Log(m, "reply", TRUE, Apology)
          /\ Goto(m, "done")
          /\ UNCHANGED faults
       \/ /\ CanFault
          /\ faults' = faults + 1
          /\ LogRejected(m, "reply", Apology, ReplyError)
          /\ Goto(m, "unhandledRejection")
    /\ UNCHANGED <<db, whatsappRequests, statements, reportSections, files, now>>

\* a handler that sends the apology again when its send rejected
HandlerCatch_Retry(m) ==
    /\ run[m].pc = "handlerCatch"
    /\ \/ /\ Log(m, "reply", TRUE, Apology)
          /\ Goto(m, "done")
          /\ UNCHANGED faults
       \/ /\ CanFault
          /\ faults' = faults + 1
          /\ LogRejected(m, "reply", Apology, ReplyError)
          /\ Goto(m, "handlerCatch")
    /\ UNCHANGED <<db, whatsappRequests, statements, reportSections, files, now>>

\* the handler's catch: the apology reply, whose own fault is only logged
HandlerCatch(m) ==
    /\ run[m].pc = "handlerCatch"
    /\ \/ /\ Log(m, "reply", TRUE, Apology)
          /\ UNCHANGED faults
       \/ /\ CanFault
          /\ faults' = faults + 1
          /\ LogRejected(m, "reply", Apology, ReplyError)
    /\ Goto(m, "done")
    /\ UNCHANGED <<db, whatsappRequests, statements, reportSections, files, now>>

\* ------------------------------------------------ processWhatsAppRequest
FindParty(m) ==
    /\ run[m].pc = "findParty"
    /\ \/ LET party == findPartyByPhoneNumber(run[m].phoneNumber)
          IN /\ run' = [run EXCEPT ![m].matchedParty = party,
                                   ![m].pc = IF party = Null THEN "updNoMatch"
                                             ELSE "updMatched"]
             /\ Log(m, "PartyCode.findOne", TRUE, << >>)
             /\ UNCHANGED faults
       \/ Reject(m, "PartyCode.findOne", << >>, "catchUpdate", StoreError, StoreError)
    /\ UNCHANGED <<db, whatsappRequests, statements, reportSections, files, now>>

UpdNoMatch(m) ==
    /\ run[m].pc = "updNoMatch"
    /\ \/ /\ updateOne(run[m].requestId, SetNoMatch(whatsappRequests[run[m].requestId]))
          /\ Goto(m, "replyNoMatch")
          /\ Log(m, "updateOne", TRUE, <<"NO_MATCH">>)
          /\ UNCHANGED faults
       \/ /\ Reject(m, "updateOne", <<"NO_MATCH">>, "catchUpdate", StoreError, StoreError)
          /\ UNCHANGED whatsappRequests
    /\ UNCHANGED <<db, statements, reportSections, files, now>>

\* without the return after the reply, control runs on into matchedParty.code
ReplyNoMatch_NoReturn(m) ==
    /\ run[m].pc = "replyNoMatch"
    /\ \/ /\ Throw(m, "catchUpdate", <<"Cannot read properties of null (reading 'code')">>)
          /\ Log(m, "reply", TRUE, NotLinkedReply)
          /\ UNCHANGED faults
       \/ Reject(m, "reply", NotLinkedReply, "catchUpdate", ReplyError, ReplyError)
    /\ UNCHANGED <<db, whatsappRequests, statements, reportSections, files, now>>

ReplyNoMatch(m) ==
    /\ run[m].pc = "replyNoMatch"
    /\ \/ /\ Goto(m, "done")
          /\ Log(m, "reply", TRUE, NotLinkedReply)
          /\ UNCHANGED faults
       \/ Reject(m, "reply", NotLinkedReply, "catchUpdate", ReplyError, ReplyError)
    /\ UNCHANGED <<db, whatsappRequests, statements, reportSections, files, now>>

UpdMatched(m) ==
    /\ run[m].pc = "updMatched"
    /\ \/ /\ updateOne(run[m].requestId,
                       SetMatched(whatsappRequests[run[m].requestId], run[m].matchedParty))
          /\ Goto(m, "checkLatest")
          /\ Log(m, "updateOne", TRUE, <<"matched">>)
          /\ UNCHANGED faults
       \/ /\ Reject(m, "updateOne", <<"matched">>, "catchUpdate", StoreError, StoreError)
          /\ UNCHANGED whatsappRequests
    /\ UNCHANGED <<db, statements, reportSections, files, now>>

\* checkForStatement: the latest statement
CheckLatest(m) ==
    /\ run[m].pc = "checkLatest"
    /\ \/ /\ IF latestStatement = {}
             THEN run' = [run EXCEPT ![m].hasStatement = {FALSE},
                                     ![m].pc = "updNoStatement"]
             ELSE \E d \in latestStatement :
                     run' = [run EXCEPT ![m].statementId = d.id,
                                        ![m].pc = "checkSection"]
          /\ Log(m, "Statement.find", TRUE, <<"checkForStatement">>)
          /\ UNCHANGED faults
       \/ Reject(m, "Statement.find", <<"checkForStatement">>, "catchUpdate", StoreError, StoreError)
    /\ UNCHANGED <<db, whatsappRequests, statements, reportSections, files, now>>

\* checkForStatement: the section of the matched party in that statement
CheckSection(m) ==
    /\ run[m].pc = "checkSection"
    /\ \/ LET found == findReportSection(run[m].statementId, run[m].matchedParty.code) # {}
          IN /\ run' = [run EXCEPT ![m].hasStatement = {found},
                                   ![m].pc = IF found THEN "genLatest"
                                             ELSE "updNoStatement"]
             /\ Log(m, "ReportSection.findOne", TRUE, <<"checkForStatement">>)
             /\ UNCHANGED faults
       \/ Reject(m, "ReportSection.findOne", <<"checkForStatement">>, "catchUpdate", StoreError, StoreError)
    /\ UNCHANGED <<db, whatsappRequests, statements, reportSections, files, now>>

UpdNoStatement(m) ==
    /\ run[m].pc = "updNoStatement"
    /\ \/ /\ updateOne(run[m].requestId,
                       SetNoStatement(whatsappRequests[run[m].requestId], run[m].matchedParty))
          /\ Goto(m, "replyNoStatement")
          /\ Log(m, "updateOne", TRUE, <<"NO_STATEMENT">>)
          /\ UNCHANGED faults
       \/ /\ Reject(m, "updateOne", <<"NO_STATEMENT">>, "catchUpdate", StoreError, StoreError)
          /\ UNCHANGED whatsappRequests
    /\ UNCHANGED <<db, statements, reportSections, files, now>>

ReplyNoStatement(m) ==
    /\ run[m].pc = "replyNoStatement"
    /\ \/ /\ Goto(m, "done")
          /\ Log(m, "reply", TRUE, NoStatementReply(run[m].matchedParty.code))
          /\ UNCHANGED faults
       \/ Reject(m, "reply", NoStatementReply(run[m].matchedParty.code),
                 "catchUpdate", ReplyError, ReplyError)
    /\ UNCHANGED <<db, whatsappRequests, statements, reportSections, files, now>>

\* the catch of processWhatsAppRequest: the FAILED update
CatchUpdate(m) ==
    /\ run[m].pc = "catchUpdate"
    /\ \/ /\ updateOne(run[m].requestId,
                       SetFailed(whatsappRequests[run[m].requestId], run[m].error))
          /\ Goto(m, "catchReply")
          /\ Log(m, "updateOne", TRUE, <<"FAILED">>)
          /\ UNCHANGED faults
       \/ /\ Reject(m, "updateOne", <<"FAILED">>, "handlerCatch", StoreError, StoreError)
          /\ UNCHANGED whatsappRequests
    /\ UNCHANGED <<db, statements, reportSections, files, now>>

\* the catch of processWhatsAppRequest: the apology reply
CatchReply(m) ==
    /\ run[m].pc = "catchReply"
    /\ \/ /\ Goto(m, "done")
          /\ Log(m, "reply", TRUE, Apology)
          /\ UNCHANGED faults
       \/ Reject(m, "reply", Apology, "handlerCatch", ReplyError, ReplyError)
    /\ UNCHANGED <<db, whatsappRequests, statements, reportSections, files, now>>

\* ---------------------------------------------- generateAndSendStatement
\* errors raised before the inner try reach processWhatsAppRequest's catch
\* as they are (the outer catch rethrows them)
GenLatest(m) ==
    /\ run[m].pc = "genLatest"
    /\ \/ /\ IF latestStatement = {}
             THEN Throw(m, "catchUpdate", NoStatementsError)
             ELSE \E d \in latestStatement :
                     run' = [run EXCEPT ![m].statementId = d.id,
                                        ![m].pc = "genSection"]
          /\ Log(m, "Statement.find", TRUE, <<"generateAndSendStatement">>)
          /\ UNCHANGED faults
       \/ Reject(m, "Statement.find", <<"generateAndSendStatement">>, "catchUpdate", StoreError, StoreError)
    /\ UNCHANGED <<db, whatsappRequests, statements, reportSections, files, now>>

GenSection(m) ==
    /\ run[m].pc = "genSection"
    /\ \/ /\ IF findReportSection(run[m].statementId, run[m].matchedParty.code) = {}
             THEN Throw(m, "catchUpdate", NoSectionError)
             ELSE Goto(m, "axiosPost")
          /\ Log(m, "ReportSection.findOne", TRUE, <<"generateAndSendStatement">>)
          /\ UNCHANGED faults
       \/ Reject(m, "ReportSection.findOne", <<"generateAndSendStatement">>, "catchUpdate", StoreError, StoreError)
    /\ UNCHANGED <<db, whatsappRequests, statements, reportSections, files, now>>

RenderArg(m) == <<run[m].matchedParty.code, ToString(run[m].statementId)>>

\* axios.post: status 200, another 2xx status (thrown at the status check,
\* then wrapped by the inner catch), a rejection (wrapped), or no answer at
\* all, which leaves the run waiting on the request
AxiosPost(m) ==
    /\ run[m].pc = "axiosPost"
    /\ \/ /\ Goto(m, "writeFile")
          /\ Log(m, "axios.post", TRUE, RenderArg(m))
          /\ UNCHANGED faults
       \/ Reject(m, "axios.post", RenderArg(m), "catchUpdate", StatusTextNon200,
                 ApiError(<<"Failed to generate PDF: ">> \o StatusTextNon200))
       \/ \E err \in RenderRejections :
             Reject(m, "axios.post", RenderArg(m), "catchUpdate", err, ApiError(err))
       \/ /\ CanFault
          /\ faults' = faults + 1
          /\ Goto(m, "axiosWait")
          /\ UNCHANGED trace
    /\ UNCHANGED <<db, whatsappRequests, statements, reportSections, files, now>>

\* the timeout option of the pending request: once the wait ran out axios
\* rejects the request, and the inner catch wraps the rejection
AxiosTimeout(m) ==
    /\ run[m].pc = "axiosWait"
    /\ LogRejected(m, "axios.post", RenderArg(m), TimeoutError)
    /\ Throw(m, "catchUpdate", ApiError(TimeoutError))
    /\ UNCHANGED <<db, whatsappRequests, statements, reportSections, files, now,
                   faults>>

\* `statement_${party.code}_${Date.now()}.pdf`
tempFileName(party, t) == <<"statement_", party.code, "_", ToString(t), ".pdf">>

\* fs.writeFile of the scratch file, read back by MessageMedia.fromFilePath
WriteFile(m) ==
    /\ run[m].pc = "writeFile"
    /\ \E t \in now..MaxNow :
         LET tempFilePath == tempFileName(run[m].matchedParty, t)
         IN /\ now' = t
            /\ \/ /\ files' = files \cup {tempFilePath}
                  /\ run' = [run EXCEPT ![m].tempFilePath = tempFilePath,
                                        ![m].pc = "replyIntro"]
                  /\ Log(m, "writeFile", TRUE, tempFilePath)
                  /\ UNCHANGED faults
               \/ /\ CanFault
                  /\ faults' = faults + 1
                  /\ run' = [run EXCEPT ![m].tempFilePath = tempFilePath,
                                        ![m].pc = "catchUpdate",
                                        ![m].error = ApiError(WriteError)]
                  /\ LogRejected(m, "writeFile", tempFilePath, WriteError)
                  /\ UNCHANGED files
    /\ UNCHANGED <<db, whatsappRequests, statements, reportSections>>

ReplyIntro(m) ==
    /\ run[m].pc = "replyIntro"
    /\ \/ /\ Goto(m, "replyMedia")
          /\ Log(m, "reply", TRUE, IntroReply(run[m].matchedParty))
          /\ UNCHANGED faults
       \/ Reject(m, "reply", IntroReply(run[m].matchedParty), "catchUpdate",
                 ReplyError, ApiError(ReplyError))
    /\ UNCHANGED <<db, whatsappRequests, statements, reportSections, files, now>>

ReplyMedia(m) ==
    /\ run[m].pc = "replyMedia"
    /\ \/ /\ Goto(m, "unlink")
          /\ Log(m, "replyMedia", TRUE, Caption(run[m].matchedParty))
          /\ UNCHANGED faults
       \/ Reject(m, "replyMedia", Caption(run[m].matchedParty), "catchUpdate",
                 ReplyError, ApiError(ReplyError))
    /\ UNCHANGED <<db, whatsappRequests, statements, reportSections, files, now>>

\* fs.unlink: rejects when the file system faults or the file is gone
Unlink(m) ==
    /\ run[m].pc = "unlink"
    /\ \/ /\ run[m].tempFilePath \in files
          /\ files' = files \ {run[m].tempFilePath}
          /\ Goto(m, "updProcessed")
          /\ Log(m, "unlink", TRUE, run[m].tempFilePath)
          /\ UNCHANGED faults
       \/ /\ run[m].tempFilePath \notin files \/ CanFault
          /\ faults' = IF run[m].tempFilePath \in files THEN faults + 1 ELSE faults
          /\ Throw(m, "catchUpdate", ApiError(UnlinkError))
          /\ LogRejected(m, "unlink", run[m].tempFilePath, UnlinkError)
          /\ UNCHANGED files
    /\ UNCHANGED <<db, whatsappRequests, statements, reportSections, now>>

UpdProcessed(m) ==
    /\ run[m].pc = "updProcessed"
    /\ \/ /\ updateOne(run[m].requestId, SetProcessed(whatsappRequests[run[m].requestId]))
          /\ Goto(m, "done")
          /\ Log(m, "updateOne", TRUE, <<"PROCESSED">>)
          /\ UNCHANGED faults
       \/ /\ Reject(m, "updateOne", <<"PROCESSED">>, "catchUpdate", StoreError,
                    ApiError(StoreError))
          /\ UNCHANGED whatsappRequests
    /\ UNCHANGED <<db, statements, reportSections, files, now>>

\* ------------------------------------------------------------ environment
\* client.on('ready'): connectToMongoDB binds the handles or leaves them unset
ConnectToMongoDB ==
    /\ db = "pending"
    /\ db' \in {"bound", "unbound"}
    /\ UNCHANGED <<whatsappRequests, statements, reportSections, files, now,
                   faults, run, trace>>

\* the Statement and ReportSection collections are written by the
\* statement-upload application, never by the bot
StoreWrite ==
    /\ \/ \E d \in StatementDocs \ statements :
             /\ statements' = statements \cup {d}
             /\ UNCHANGED reportSections
       \/ \E d \in statements :
             /\ statements' = statements \ {d}
             /\ reportSections' = { s \in reportSections : s.statementId # d.id }
       \/ \E s \in ReportSectionDocs \ reportSections :
             /\ \E d \in statements : d.id = s.statementId
             /\ reportSections' = reportSections \cup {s}
             /\ UNCHANGED statements
    /\ UNCHANGED <<db, whatsappRequests, files, now, faults, run, trace>>

\* the chat transport hands over the next message when the handler of the
\* previous one has returned
Deliver(m) ==
    /\ \A k \in Msgs : k < m => run[k].pc = "done"
    /\ OnMessage(m)

\* the continuations of the handler of message m
Handle(m) ==
    \/ HandlerCatch(m)
    \/ FindParty(m)
    \/ UpdNoMatch(m)
    \/ ReplyNoMatch(m)
    \/ UpdMatched(m)
    \/ CheckLatest(m)
    \/ CheckSection(m)
    \/ UpdNoStatement(m)
    \/ ReplyNoStatement(m)
    \/ GenLatest(m)
    \/ GenSection(m)
    \/ AxiosPost(m)
    \/ AxiosTimeout(m)
    \/ WriteFile(m)
    \/ ReplyIntro(m)
    \/ ReplyMedia(m)
    \/ Unlink(m)
    \/ UpdProcessed(m)
    \/ CatchUpdate(m)
    \/ CatchReply(m)

Step(m) == Deliver(m) \/ Handle(m)

\* the handling of one inbound message, the stores being written meanwhile
Next ==
    \/ ConnectToMongoDB
    \/ StoreWrite
    \/ Step(1)

Spec == Init /\ [][Next]_vars

\* the same, with the scheduling the event loop gives the recovery path: the
\* timer of a pending render request fires, each awaited call of the catch
\* blocks settles, and the handler is resumed once it did
SpecLive ==
    /\ Init /\ [][Next]_vars
    /\ WF_vars(AxiosTimeout(1))
    /\ WF_vars(CatchUpdate(1))
    /\ WF_vars(CatchReply(1))
    /\ WF_vars(HandlerCatch(1))

\* MaxMsgs messages handled one after the other
NextSerial ==
    \/ ConnectToMongoDB
    \/ \E m \in Msgs : Step(m)

SpecSerial == Init /\ [][NextSerial]_vars

\* two messages whose handlers are in flight together: the message event of
\* the second may fire while the first handler awaits a call
Pair == {m \in Msgs : m <= 2}

NextConc ==
    \/ ConnectToMongoDB
    \/ \E m \in Pair : OnMessage(m) \/ Handle(m)

SpecConc == Init /\ [][NextConc]_vars

\* the Phone Matcher applied to senders of every length: the state after the
\* handler inserted the record of a message from a sender whose digits are
\* any string of up to MaxDigits digits, or those of an Inbox sender
SenderDigits == {"4", "9"}

DigitStrings ==
    UNION { [1..n -> SenderDigits] : n \in 0..MaxDigits }
       \cup { StripNonDigits(message.from) : message \in Inbox }

InitMatcher ==
    /\ db = "bound"
    /\ statements = {}
    /\ reportSections = {}
    /\ files = {}
    /\ now = 0
    /\ faults = 0
    /\ \E digits \in DigitStrings :
         LET message == [from |-> digits \o <<"@", "c", ".", "u", "s">>,
                         body |-> <<"h", "i">>, isGroup |-> FALSE]
             phoneNumber == StripNonDigits(message.from)
         IN /\ whatsappRequests = << requestRecord(phoneNumber, Trim(message.body)) >>
            /\ run = [m \in Msgs |->
                        IF m = 1
                        THEN [IdleRun EXCEPT !.pc = "findParty",
                                             !.message = message,
                                             !.phoneNumber = phoneNumber,
                                             !.requestId = 1]
                        ELSE IdleRun]
    /\ trace = [m \in Msgs |->
                  IF m = 1 THEN << Call("insertOne", TRUE, << >>, << >>) >> ELSE << >>]

NextMatcher == FindParty(1)

SpecMatcher == InitMatcher /\ [][NextMatcher]_vars

\* ------------------------------------------------- observations of a run
Pcs ==
    {"idle", "findParty", "updNoMatch", "replyNoMatch", "updMatched",
     "checkLatest", "checkSection", "updNoStatement", "replyNoStatement",
     "genLatest", "genSection", "axiosPost", "axiosWait", "writeFile", "replyIntro",
     "replyMedia", "unlink", "updProcessed", "catchUpdate", "catchReply",
     "handlerCatch", "done"}

\* the handler of message m has returned
Done(m) == run[m].pc = "done"

\* the insert of message m's record succeeded
Created(m) == run[m].requestId # 0

Record(m) == whatsappRequests[run[m].requestId]

Range(s) == { s[i] : i \in 1..Len(s) }

\* a occurs in b as a contiguous part
IsInfix(a, b) ==
    \E i \in 0..(Len(b) - Len(a)) : SubSeq(b, i + 1, i + Len(a)) = a

Rejections(m) == { i \in 1..Len(trace[m]) : ~trace[m][i].ok }

NoRejects(m) == Rejections(m) = {}

OnlyReplyRejects(m) ==
    \A i \in Rejections(m) : trace[m][i].op \in {"reply", "replyMedia"}

IsDelivered(c) == c.op \in {"reply", "replyMedia"} /\ c.ok

\* what the sender received for message m, in order
DeliveredReplies(m) == SelectSeq(trace[m], IsDelivered)

Answered(m, op) == \E i \in 1..Len(trace[m]) : trace[m][i].op = op /\ trace[m][i].ok

Requested(m, op) == \E i \in 1..Len(trace[m]) : trace[m][i].op = op

ApologySent(m) ==
    \E i \in 1..Len(trace[m]) :
       trace[m][i].op = "reply" /\ trace[m][i].ok /\ trace[m][i].arg = Apology

\* the matched customer was recorded: the run reached the statement check
MatchRecorded(m) ==
    \E i \in 1..Len(trace[m]) :
       trace[m][i].op = "updateOne" /\ trace[m][i].ok /\ trace[m][i].arg = <<"matched">>

\* the Phone Matcher answered none for message m
MatcherNone(m) == Answered(m, "PartyCode.findOne") /\ run[m].matchedParty = Null

\* the Statement Availability Checker answered false for message m
CheckerFalse(m) == run[m].hasStatement = {FALSE}

\* the first call of message m that rejected
FirstRejected(m) == trace[m][Min(Rejections(m))]

\* a call made between the match and the end of the statement check
BetweenMatchAndCheck(c) ==
    \/ c.op = "updateOne" /\ c.arg = <<"matched">>
    \/ c.op \in {"Statement.find", "ReportSection.findOne"}
       /\ c.arg = <<"checkForStatement">>

\* a call made from the statement check through the document delivery
CheckThroughDelivery(m, c) ==
    \/ c.op \in {"Statement.find", "ReportSection.findOne", "axios.post",
                 "writeFile", "replyMedia"}
    \/ c.op = "reply" /\ c.arg = IntroReply(run[m].matchedParty)

\* ------------------------------------------------------------------ claims

\* C1: once a record's status is NO_MATCH, NO_STATEMENT, FAILED or PROCESSED,
\* no later step changes that status.
C1_TerminalStatusNeverChanges ==
    [][\A id \in 1..Len(whatsappRequests) :
          whatsappRequests[id].status \in Terminal
             => whatsappRequests'[id].status = whatsappRequests[id].status]_vars

\* C2: a finished run whose record was created and whose first fault came
\* between the match and the end of the statement check has a record with
\* status FAILED, never one left at RECEIVED.
C2_FaultAfterMatchLeavesFailed ==
    \A m \in Msgs :
       (Done(m) /\ Created(m) /\ ~NoRejects(m) /\ BetweenMatchAndCheck(FirstRejected(m)))
          => Record(m).status = "FAILED"

\* C3: a finished run whose first fault came at a step from the statement
\* check through the document delivery has a FAILED record whose outcome
\* message contains the fault's description, and its sender got the apology.
C3_FaultRecordedAndApologised ==
    \A m \in Msgs :
       (Done(m) /\ Created(m) /\ ~NoRejects(m)
          /\ MatchRecorded(m)
          /\ CheckThroughDelivery(m, FirstRejected(m)))
          => /\ Record(m).status = "FAILED"
             /\ IsInfix(FirstRejected(m).err, Record(m).responseMessage)
             /\ ApologySent(m)

\* C4: a finished run in which the matcher answered none or the checker
\* answered false, whatever the reply transport did, sent no apology and
\* left the record at NO_MATCH resp. NO_STATEMENT.
C4_BusinessOutcomeNeverApologises ==
    \A m \in Msgs :
       (Done(m) /\ Created(m) /\ OnlyReplyRejects(m))
          => /\ MatcherNone(m)
                => ~ApologySent(m) /\ Record(m).status = "NO_MATCH"
             /\ CheckerFalse(m)
                => ~ApologySent(m) /\ Record(m).status = "NO_STATEMENT"

\* the two replies of a successful delivery
SuccessReplies(party) ==
    << Call("reply", TRUE, IntroReply(party), << >>),
       Call("replyMedia", TRUE, Caption(party), << >>) >>

\* C5: in a run with a matched customer, a report section, a rendered
\* document and no fault, the sender receives the introductory text and then
\* the document captioned with the customer key, and nothing else; a record
\* is PROCESSED only after both were delivered, and the finished run's
\* record is PROCESSED with statementSent and the fixed success message.
C5_SuccessDeliversThenCompletes ==
    \A m \in Msgs :
       /\ (Created(m) /\ Record(m).status = "PROCESSED")
             => DeliveredReplies(m) = SuccessReplies(run[m].matchedParty)
       /\ (Done(m) /\ NoRejects(m) /\ Answered(m, "axios.post"))
             => /\ findPartyByPhoneNumber(run[m].phoneNumber) = run[m].matchedParty
                /\ run[m].matchedParty # Null
                /\ DeliveredReplies(m) = SuccessReplies(run[m].matchedParty)
                /\ run[m].matchedParty.code \in Range(DeliveredReplies(m)[2].arg)
                /\ Record(m).status = "PROCESSED"
                /\ Record(m).statementSent
                /\ Record(m).responseMessage = SuccessMessage

C5_Witness ==
    \E m \in Msgs :
       /\ Done(m) /\ NoRejects(m) /\ Answered(m, "axios.post")
       /\ Record(m).status = "PROCESSED"
       /\ Len(DeliveredReplies(m)) = 2

\* C6: a fault-free run whose sender matches no customer record ends with
\* status NO_MATCH and the fixed outcome message, sends the fixed reply and
\* nothing else, never runs the statement check, never requests the render
\* service and records no matched customer key.
C6_NoMatchStops ==
    \A m \in Msgs :
       (Done(m) /\ Created(m) /\ NoRejects(m)
          /\ findPartyByPhoneNumber(run[m].phoneNumber) = Null)
          => /\ Record(m).status = "NO_MATCH"
             /\ Record(m).responseMessage = NotLinkedMessage
             /\ DeliveredReplies(m) = << Call("reply", TRUE, NotLinkedReply, << >>) >>
             /\ ~Requested(m, "Statement.find")
             /\ ~Requested(m, "ReportSection.findOne")
             /\ ~Requested(m, "axios.post")
             /\ Record(m).matchedPartyCode = Undefined

C6_Witness ==
    \E m \in Msgs :
       /\ Done(m) /\ Created(m) /\ NoRejects(m)
       /\ findPartyByPhoneNumber(run[m].phoneNumber) = Null
       /\ Record(m).status = "NO_MATCH"

\* C7: a fault-free run whose sender matches a customer and whose statement
\* check answers false ends with status NO_STATEMENT and an outcome message
\* naming the customer key, sends one reply naming the customer key and
\* never requests the render service.
C7_NoStatementStops ==
    \A m \in Msgs :
       (Done(m) /\ Created(m) /\ NoRejects(m)
          /\ findPartyByPhoneNumber(run[m].phoneNumber) # Null
          /\ CheckerFalse(m))
          => LET code == findPartyByPhoneNumber(run[m].phoneNumber).code
             IN /\ Record(m).status = "NO_STATEMENT"
                /\ Record(m).responseMessage = NoStatementMessage(code)
                /\ code \in Range(Record(m).responseMessage)
                /\ DeliveredReplies(m) = << Call("reply", TRUE, NoStatementReply(code), << >>) >>
                /\ code \in Range(DeliveredReplies(m)[1].arg)
                /\ ~Requested(m, "axios.post")

C7_Witness ==
    \E m \in Msgs :
       /\ Done(m) /\ Created(m) /\ NoRejects(m) /\ CheckerFalse(m)
       /\ Answered(m, "ReportSection.findOne")
       /\ statements # {}
       /\ Record(m).status = "NO_STATEMENT"

\* C8: when a run that wrote a scratch file has finished, the scratch file
\* has been removed.
C8_ScratchFileRemoved ==
    \A m \in Msgs :
       (Done(m) /\ Answered(m, "writeFile")) => run[m].tempFilePath \notin files

\* C9: a finished run in which both replies were delivered and the removal
\* of the scratch file then faulted has a PROCESSED record with
\* statementSent, and its sender got no apology.
C9_CleanupFaultNotFatal ==
    \A m \in Msgs :
       (Done(m) /\ Answered(m, "replyMedia") /\ Requested(m, "unlink")
          /\ ~Answered(m, "unlink"))
          => /\ Record(m).status = "PROCESSED"
             /\ Record(m).statementSent
             /\ ~ApologySent(m)

IsStatusUpdate(c) == c.op = "updateOne" /\ c.ok /\ c.arg # <<"matched">>

\* the status the run's own updates have given its record
OwnStatus(m) ==
    LET ups == SelectSeq(trace[m], IsStatusUpdate)
    IN IF ups = << >> THEN "RECEIVED" ELSE ups[Len(ups)].arg[1]

\* C10: whatever faults occur, the FAILED-recording path included, every
\* exception raised while handling a message is caught inside its handler
\* (the run is only ever at a position of the handler, up to its return);
\* a message delivered afterwards is handled from a fresh RECEIVED record of
\* its own, and a record's status is the one its own run gave it.
C10_FaultsContainedPerMessage ==
    \A m \in Msgs :
       /\ run[m].pc \in Pcs
       /\ run[m].pc = "findParty"
             => /\ Created(m)
                /\ Record(m) = requestRecord(StripNonDigits(run[m].message.from),
                                             Trim(run[m].message.body))
       /\ Created(m)
             => /\ Record(m).status = OwnStatus(m)
                /\ \A k \in Msgs : (k # m /\ Created(k)) => run[k].requestId # run[m].requestId

C10_Witness ==
    /\ Done(1)
    /\ \E i \in Rejections(1) :
          trace[1][i].op = "updateOne" /\ trace[1][i].arg = <<"FAILED">>
    /\ \E i \in Rejections(1) : trace[1][i].op = "reply" /\ trace[1][i].arg = Apology
    /\ Done(2) /\ Created(2) /\ NoRejects(2)
    /\ Record(2).status = "PROCESSED"

\* the handler of message m went past the group check
Accepted(m) == run[m].pc # "idle" /\ ~run[m].message.isGroup

\* the insert of message m's record faulted
InsertFaulted(m) == Accepted(m) /\ ~Created(m)

IsReply(c) == c.op \in {"reply", "replyMedia"}

\* the replies attempted for message m, delivered or not, in order
AttemptedReplies(m) == SelectSeq(trace[m], IsReply)

\* C11: when the insert of the RECEIVED record faults (the store rejects it,
\* or the handles are not bound), the matcher, the statement check and the
\* render service are never invoked, the collection holds no record for the
\* message, the only reply ever attempted is one apology, and the handler
\* returns even when that apology rejects.
C11_InsertFaultStopsProcessing ==
    \A m \in Msgs :
       InsertFaulted(m)
          => /\ run[m].pc \in {"handlerCatch", "done"}
             /\ ~Requested(m, "PartyCode.findOne")
             /\ ~Requested(m, "Statement.find")
             /\ ~Requested(m, "ReportSection.findOne")
             /\ ~Requested(m, "axios.post")
             /\ ~Requested(m, "updateOne")
             /\ Len(whatsappRequests) = Cardinality({ k \in Msgs : Created(k) })
             /\ \A id \in 1..Len(whatsappRequests) :
                   \E k \in Msgs : k # m /\ run[k].requestId = id
             /\ Len(AttemptedReplies(m)) = IF Done(m) THEN 1 ELSE 0
             /\ \A i \in 1..Len(AttemptedReplies(m)) :
                   AttemptedReplies(m)[i].arg = Apology

C11_Witness ==
    \E m \in Msgs :
       /\ InsertFaulted(m) /\ Done(m)
       /\ Requested(m, "insertOne")
       /\ AttemptedReplies(m) = << Call("reply", FALSE, Apology, ReplyError) >>

IsRejectedApology(c) == c.op = "reply" /\ ~c.ok /\ c.arg = Apology

RejectedApologies(m) ==
    { i \in 1..Len(trace[m]) : IsRejectedApology(trace[m][i]) }

\* C12: a finished run in which an apology reply rejected attempted no reply
\* after that apology, and its sender received no reply at all.
C12_ApologyFaultSwallowed ==
    \A m \in Msgs :
       (Done(m) /\ RejectedApologies(m) # {})
          => /\ \A j \in 1..Len(trace[m]) :
                   j > Min(RejectedApologies(m)) => ~IsReply(trace[m][j])
             /\ DeliveredReplies(m) = << >>

IsStoreCall(c) ==
    c.op \in {"insertOne", "PartyCode.findOne", "updateOne",
              "Statement.find", "ReportSection.findOne"}

\* a call of the recovery path: the FAILED update and the apology
IsRecoveryCall(c) ==
    \/ c.op = "updateOne" /\ c.arg = <<"FAILED">>
    \/ c.op = "reply" /\ c.arg = Apology

\* C13: within one message's handling the render service is requested at
\* most once, no store step is attempted twice, no reply whose send rejected
\* is sent again, and after the first rejected call only the recovery calls
\* (the FAILED update and the apology) are made.
C13_NoRetry ==
    \A m \in Msgs :
       \A i, j \in 1..Len(trace[m]) :
          i < j
             => /\ ~(trace[m][i].op = "axios.post" /\ trace[m][j].op = "axios.post")
                /\ IsStoreCall(trace[m][i])
                      => ~(trace[m][j].op = trace[m][i].op
                             /\ trace[m][j].arg = trace[m][i].arg)
                /\ (IsReply(trace[m][i]) /\ ~trace[m][i].ok)
                      => ~(trace[m][j].op = trace[m][i].op
                             /\ trace[m][j].arg = trace[m][i].arg)
                /\ (\A k \in Rejections(m) : i <= k) /\ ~trace[m][i].ok
                      => IsRecoveryCall(trace[m][j])

\* the render request of message m ran into the timeout
TimedOut(m) ==
    \E i \in 1..Len(trace[m]) :
       trace[m][i].op = "axios.post" /\ trace[m][i].err = TimeoutError

\* C14: a run waiting on a render service that does not answer eventually
\* returns, and a finished run whose render request ran into the timeout has
\* a FAILED record whose outcome message holds the timeout's description, and
\* its sender got the apology.
C14_RenderTimeoutEndsFailed ==
    /\ [](\A m \in Msgs :
             (Done(m) /\ TimedOut(m))
                => /\ Record(m).status = "FAILED"
                   /\ IsInfix(TimeoutError, Record(m).responseMessage)
                   /\ ApologySent(m))
    /\ \A m \in Msgs : (run[m].pc = "axiosWait") ~> Done(m)

\* the run of message m holds a scratch file it wrote and has not removed
UsesScratchFile(m) == run[m].pc \in {"replyIntro", "replyMedia", "unlink"}

\* C15: two runs in flight together for the same customer never hold the
\* same scratch file: what one run wrote and has not yet removed is never the
\* file another run writes, sends or removes.
C15_ScratchFilesDistinct ==
    \A m, k \in Msgs :
       (m # k /\ UsesScratchFile(m) /\ UsesScratchFile(k)
          /\ run[m].matchedParty = run[k].matchedParty)
          => run[m].tempFilePath # run[k].tempFilePath

\* the outcome message the run's own calls account for
OwnMessageOk(m, msg) ==
    CASE OwnStatus(m) = "RECEIVED" -> msg = << >>
      [] OwnStatus(m) = "NO_MATCH" -> msg = NotLinkedMessage
      [] OwnStatus(m) = "NO_STATEMENT" -> msg = NoStatementMessage(run[m].matchedParty.code)
      [] OwnStatus(m) = "PROCESSED" -> msg = SuccessMessage
      [] OwnStatus(m) = "FAILED" ->
            /\ Head(msg) = "Error: "
            /\ Rejections(m) # {}
            /\ IsInfix(FirstRejected(m).err, msg)

\* C16: however two runs interleave, for the same sender or for different
\* ones, each run has a record of its own, and every field of that record is
\* the one the run's own input and the answers to its own calls give:
\* sender and text from its message, status and statementSent from its last
\* status update, matched customer from its own match, outcome message from
\* its own outcome.
C16_RunsUpdateOwnRecordOnly ==
    \A m \in Msgs :
       Created(m)
          => /\ \A k \in Msgs : (k # m /\ Created(k)) => run[k].requestId # run[m].requestId
             /\ Record(m).phoneNumber = StripNonDigits(run[m].message.from)
             /\ Record(m).message = Trim(run[m].message.body)
             /\ Record(m).status = OwnStatus(m)
             /\ Record(m).statementSent = (OwnStatus(m) = "PROCESSED")
             /\ Record(m).matchedPartyCode =
                   IF MatchRecorded(m) THEN run[m].matchedParty.code ELSE Undefined
             /\ OwnMessageOk(m, Record(m).responseMessage)

C16_Witness ==
    \E m, k \in Msgs :
       /\ m # k /\ Created(m) /\ Created(k)
       /\ run[m].phoneNumber = run[k].phoneNumber
       /\ run[m].pc = "catchReply" /\ Record(m).status = "FAILED"
       /\ run[k].pc = "unlink" /\ Record(k).status = "RECEIVED"

\* C17: the step that takes up a group-addressed message ends its handler at
\* once and changes nothing else: no record is created, no store is read or
\* written, no render request is made, no file is touched, no reply is sent,
\* and no other run is affected.
C17_GroupMessageIgnored ==
    [][\A m \in Msgs :
          (run[m].pc = "idle" /\ run'[m].pc # "idle" /\ run'[m].message.isGroup)
             => /\ run'[m] = [run[m] EXCEPT !.pc = "done", !.message = run'[m].message]
                /\ \A k \in Msgs : k # m => run'[k] = run[k]
                /\ UNCHANGED <<db, whatsappRequests, statements, reportSections,
                               files, now, faults, trace>>]_vars

C17_Witness ==
    \E m \in Msgs :
       /\ Done(m) /\ run[m].message.isGroup
       /\ trace[m] = << >> /\ ~Created(m)

\* the customer keys of the PartyCode collection
PartyCodes == { PartyCodeDocs[i].code : i \in 1..Len(PartyCodeDocs) }

HasSection(d, partyCode) ==
    \E s \in reportSections : s.statementId = d.id /\ s.partyCode = partyCode

IsMostRecent(d) ==
    d \in statements /\ \A e \in statements : e.statementDate <= d.statementDate

\* C18: in every state of the two stores and for every customer key,
\* checkForStatement answers false when there is no statement, false when
\* the most recent statement has no section for the key (whatever sections
\* older statements have) and true otherwise; the answer a run gets is that
\* one, two runs asking for the same customer over the same stores get the
\* same answer, and no step of a handler changes either store.
C18_HasStatement ==
    /\ [](\A partyCode \in PartyCodes :
             /\ statements = {} => checkForStatement(partyCode) = {FALSE}
             /\ \A d \in statements :
                   IsMostRecent(d)
                      => checkForStatement(partyCode) = {HasSection(d, partyCode)})
    /\ [](\A m, k \in Msgs :
             /\ run[m].hasStatement # {}
                   => run[m].hasStatement = checkForStatement(run[m].matchedParty.code)
             /\ (run[m].hasStatement # {} /\ run[k].hasStatement # {}
                   /\ run[m].matchedParty = run[k].matchedParty)
                   => run[m].hasStatement = run[k].hasStatement)
    /\ [][UNCHANGED <<statements, reportSections>>]_vars

C18_Witness ==
    \E m \in Msgs, d, e \in statements :
       /\ IsMostRecent(d) /\ ~HasSection(d, run[m].matchedParty.code)
       /\ e # d /\ HasSection(e, run[m].matchedParty.code)
       /\ Answered(m, "ReportSection.findOne")
       /\ run[m].hasStatement = {FALSE}

\* the matcher was applied to the sender of message m
Matched(m) == Requested(m, "PartyCode.findOne")

\* the candidates as a set
Candidates(phoneNumber) == Range(searchPatterns(phoneNumber))

\* C19: for a sender number the matcher was applied to and whose length is
\* not 10, shorter or longer, the two 5+5 splits leave the number as it is
\* and the candidates are only 2 to 3 distinct strings.
C19_SplitNoOpOffTen ==
    \A m \in Msgs :
       (Matched(m) /\ Len(run[m].phoneNumber) # 10)
          => /\ SplitFiveFive(run[m].phoneNumber, <<" ">>) = run[m].phoneNumber
             /\ SplitFiveFive(run[m].phoneNumber, <<"-">>) = run[m].phoneNumber
             /\ Cardinality(Candidates(run[m].phoneNumber)) \in 2..3

\* the 5+5 split of a ten-digit number
FiveFive(p, sep) == SubSeq(p, 1, 5) \o sep \o SubSeq(p, 6, 10)

\* C20: for a sender number of ten digits the matcher was applied to, the
\* candidates are the number, its 5+5 split joined by a space, its 5+5 split
\* joined by a hyphen, the number in parentheses and the space-split form
\* in parentheses, and the five are pairwise distinct.
C20_TenDigitCandidates ==
    \A m \in Msgs :
       (Matched(m) /\ Len(run[m].phoneNumber) = 10 /\ AllDigits(run[m].phoneNumber))
          => LET p == run[m].phoneNumber
                 c == searchPatterns(p)
             IN /\ c = << p,
                          FiveFive(p, <<" ">>),
                          FiveFive(p, <<"-">>),
                          <<"(">> \o p \o <<")">>,
                          <<"(">> \o FiveFive(p, <<" ">>) \o <<")">> >>
                /\ \A i, j \in 1..Len(c) : i # j => c[i] # c[j]
                /\ Cardinality(Candidates(p)) = 5

C20_Witness ==
    \E m \in Msgs :
       /\ Matched(m)
       /\ Len(run[m].phoneNumber) = 10
       /\ run[m].phoneNumber \notin { StripNonDigits(message.from) : message \in Inbox }

\* some candidate of the sender occurs, character for character, somewhere
\* in the customer's name or city
ContainsCandidate(doc, phoneNumber) ==
    \E c \in Candidates(phoneNumber) :
       IsInfix(c, doc.customerName) \/ IsInfix(c, doc.city)

\* C21: when the matcher answered, the customer it returned is a PartyCode
\* document whose name or city contains some candidate of the sender as a
\* literal substring, parentheses included, at any position; it returned
\* none exactly when no document's name or city contains any candidate.
C21_MatchIsLiteralSubstring ==
    \A m \in Msgs :
       Answered(m, "PartyCode.findOne")
          => /\ run[m].matchedParty # Null
                   => /\ run[m].matchedParty \in Range(PartyCodeDocs)
                      /\ ContainsCandidate(run[m].matchedParty, run[m].phoneNumber)
             /\ run[m].matchedParty = Null
                   <=> \A doc \in Range(PartyCodeDocs) :
                          ~ContainsCandidate(doc, run[m].phoneNumber)

C21_Witness ==
    \E m \in Msgs :
       /\ Answered(m, "PartyCode.findOne")
       /\ run[m].phoneNumber = StripNonDigits(FromTen)
       /\ run[m].matchedParty.code = "C100"
       /\ ~IsInfix(run[m].phoneNumber, run[m].matchedParty.city)
       /\ IsInfix(SplitFiveFive(run[m].phoneNumber, <<" ">>), run[m].matchedParty.city)
       /\ Len(run[m].matchedParty.city) > Len(run[m].phoneNumber) + 1

\* C22: a finished run's record has statementSent exactly when the document
\* reply was delivered in that run, also when the removal of the scratch
\* file or the PROCESSED update rejected after the delivery.
C22_StatementSentIffDelivered ==
    \A m \in Msgs :
       (Done(m) /\ Created(m))
          => (Record(m).statementSent <=> Answered(m, "replyMedia"))

\* the record carries the key and the name of customer party
CarriesMatch(doc, party) ==
    doc.matchedPartyCode = party.code /\ doc.matchedPartyName = party.customerName

\* the record carries no matched customer
CarriesNoMatch(doc) ==
    doc.matchedPartyCode = Undefined /\ doc.matchedPartyName = << >>

\* C23: the matched customer's key and name are on the record, its status
\* still RECEIVED, when the statement check starts, and no statement check
\* is made without them; in every state a NO_STATEMENT or PROCESSED record
\* carries the key and name of the customer its run matched, a NO_MATCH
\* record carries none, and the step that makes a record FAILED leaves the
\* key and name it carried as they were.
C23_MatchPersistedBeforeCheck ==
    /\ [](\A m \in Msgs :
             /\ run[m].pc = "checkLatest"
                   => /\ Record(m).status = "RECEIVED"
                      /\ run[m].matchedParty # Null
                      /\ CarriesMatch(Record(m), run[m].matchedParty)
             /\ Requested(m, "Statement.find") => MatchRecorded(m)
             /\ (Created(m) /\ Record(m).status \in {"NO_STATEMENT", "PROCESSED"})
                   => /\ Record(m).matchedPartyCode \in PartyCodes
                      /\ CarriesMatch(Record(m), run[m].matchedParty)
             /\ (Created(m) /\ Record(m).status = "NO_MATCH")
                   => CarriesNoMatch(Record(m)))
    /\ [][\A id \in 1..Len(whatsappRequests) :
             (whatsappRequests[id].status # "FAILED"
                /\ whatsappRequests'[id].status = "FAILED")
                => /\ whatsappRequests'[id].matchedPartyCode
                         = whatsappRequests[id].matchedPartyCode
                   /\ whatsappRequests'[id].matchedPartyName
                         = whatsappRequests[id].matchedPartyName]_vars

C23_Witness ==
    \E m \in Msgs :
       /\ Done(m) /\ Created(m) /\ MatchRecorded(m)
       /\ Requested(m, "Statement.find")
       /\ Record(m).status = "FAILED"
       /\ Record(m).matchedPartyCode = "C100"

====
